---- MODULE Spec2Model ----
(***************************************************************************)
(* Model of kilo.c: the terminal-mode lifecycle (enableRawMode,            *)
(* disableRawMode, die, the atexit registration) and the main read loop.   *)
(*                                                                         *)
(* A termios flag word is modelled as the set of its bit positions that    *)
(* are 1, so x &= ~m is set difference and x |= m is set union.  The bit   *)
(* positions are those of the Linux <termios.h>.                           *)
(*                                                                         *)
(* The environment is modelled as far as the code depends on it:           *)
(*   - tcgetattr/tcsetattr either succeed or return -1 (no change made);   *)
(*   - read returns one byte, 0 (timeout) or -1 (error);                   *)
(*   - a termination signal (SIGTERM, SIGHUP, ...) may end the process at  *)
(*     any point: the program installs no signal handler, so the default   *)
(*     action applies and no atexit handler runs;                          *)
(*   - exit called while exit is already running its handlers is undefined *)
(*     behaviour (C11 7.22.4.4p2): the model takes either outcome known of *)
(*     C libraries, continuing the termination with the new status, or an  *)
(*     abnormal termination of the process.                                *)
(***************************************************************************)
EXTENDS Integers, Sequences, FiniteSets, TLC

\* ------------------------------------------------------------------ bounds
\* Number of iterations of the main loop that the model follows.
MaxReads == 2

\* ------------------------------------------------------ termios flag bits
\* c_iflag
BRKINT == {1}
ICRNL == {8}
INPCK == {4}
ISTRIP == {5}
IXON == {10}
\* c_oflag
OPOST == {0}
\* c_cflag: CSIZE is the two-bit field {4,5}; CS8 has both bits set
CS8 == {4, 5}
\* c_lflag
ECHO == {3}
ICANON == {1}
IEXTEN == {15}
ISIG == {0}
\* c_cc indices
VTIME == 5
VMIN == 6

\* x & ~m
BitAndNot(x, m) == x \ m
\* x | m
BitOr(x, m) == x \cup m

\* The control characters of c_cc that the model carries: VTIME, VMIN and
\* index 0 (VINTR), which stands for the ones the program never touches.
CcIndices == {0, VTIME, VMIN}

\* The value of the zero-initialised global struct termios orig_termios.
ZeroTermios ==
  [c_iflag |-> {}, c_oflag |-> {}, c_cflag |-> {}, c_lflag |-> {},
   c_cc |-> [i \in CcIndices |-> 0]]

\* Terminal configurations the process may be started with.  Each word
\* ranges over values with the bits the program changes set and clear, in
\* company of bits the program does not name (IGNBRK = bit 0 of c_iflag,
\* ONLCR = bit 2 of c_oflag, CREAD = bit 7 of c_cflag, ECHOE = bit 4 of
\* c_lflag).
IflagInit == { {}, BRKINT \cup ICRNL \cup IXON, INPCK \cup ISTRIP \cup {0} }
OflagInit == { {2}, OPOST \cup {2} }
CflagInit == { {7}, {5}, CS8 \cup {7} }
LflagInit == { {4}, ECHO \cup ICANON \cup IEXTEN \cup ISIG \cup {4} }
CcInit == { (0 :> 3) @@ (VTIME :> 0) @@ (VMIN :> 1),
            (0 :> 28) @@ (VTIME :> 1) @@ (VMIN :> 0) }

InitTermios ==
  { [c_iflag |-> i, c_oflag |-> o, c_cflag |-> cf, c_lflag |-> l, c_cc |-> cc] :
      i \in IflagInit, o \in OflagInit, cf \in CflagInit, l \in LflagInit,
      cc \in CcInit }

\* Bytes that read may deliver: NUL, ctrl-Q, 'a', 'q'.
Bytes == {0, 17, 97, 113}
QuitKey == 113

\* exitCode before exit was called
NoExitCode == -1

\* States in which the process no longer exists.
Ended == {"exited", "killed", "crashed"}

VARIABLES
  term,          \* the configuration held by the terminal device
  orig_termios,  \* the global of line 7
  raw,           \* the local of enableRawMode
  pc,            \* position of the process
  handlers,      \* functions registered with atexit, in registration order
  inExit,        \* exit has been called
  exitCode,      \* status passed to the latest exit
  dieMsg,        \* argument s of die
  stderr,        \* diagnostics written by perror
  stdout,        \* values printed by the main loop
  c,             \* the local of the main loop
  nread,         \* return value of the latest read
  reads,         \* number of loop iterations so far
  \* history variables
  term0,         \* the configuration the terminal had at process start
  captured,      \* tcgetattr has succeeded
  origWrites,    \* number of writes to orig_termios
  rawApplied,    \* tcsetattr of line 96 has succeeded
  setattrCalls,  \* number of tcsetattr calls
  restoreCalls,  \* number of calls of disableRawMode
  restoreOk,     \* outcome of the latest tcsetattr of disableRawMode
  enableFailed,  \* which call of enableRawMode failed, if any
  quitRead       \* the main loop has left through 'q'

vars == <<term, orig_termios, raw, pc, handlers, inExit, exitCode, dieMsg,
          stderr, stdout, c, nread, reads, term0, captured, origWrites,
          rawApplied, setattrCalls, restoreCalls, restoreOk, enableFailed,
          quitRead>>

hist == <<term0, captured, origWrites, rawApplied, setattrCalls,
          restoreCalls, restoreOk, enableFailed, quitRead>>

Init ==
  /\ term \in InitTermios
  /\ term0 = term
  /\ orig_termios = ZeroTermios
  /\ raw = ZeroTermios
  /\ pc = "tcgetattr"
  /\ handlers = <<>>
  /\ inExit = FALSE
  /\ exitCode = NoExitCode
  /\ dieMsg = ""
  /\ stderr = <<>>
  /\ stdout = <<>>
  /\ c = 0
  /\ nread = 0
  /\ reads = 0
  /\ captured = FALSE
  /\ origWrites = 0
  /\ rawApplied = FALSE
  /\ setattrCalls = 0
  /\ restoreCalls = 0
  /\ restoreOk = "none"
  /\ enableFailed = "none"
  /\ quitRead = FALSE

\* ---------------------------------------------------------- enableRawMode
\* Tcgetattr with the return value of tcgetattr ignored: on -1 the function
\* carries on with the unset orig_termios.
Tcgetattr_NoDie ==
  /\ pc = "tcgetattr"
  /\ \E ok \in BOOLEAN :
       IF ok
       THEN /\ orig_termios' = term
            /\ captured' = TRUE
            /\ origWrites' = origWrites + 1
            /\ UNCHANGED enableFailed
       ELSE /\ enableFailed' = "tcgetattr"
            /\ UNCHANGED <<orig_termios, captured, origWrites>>
  /\ pc' = "atexit"
  /\ UNCHANGED <<term, raw, handlers, inExit, exitCode, dieMsg, stderr,
                 stdout, c, nread, reads, term0, rawApplied, setattrCalls,
                 restoreCalls, restoreOk, quitRead>>

\* line 31-33: tcgetattr(STDIN_FILENO, &orig_termios), die on -1
Tcgetattr ==
  /\ pc = "tcgetattr"
  /\ \E ok \in BOOLEAN :
       IF ok
       THEN /\ orig_termios' = term
            /\ captured' = TRUE
            /\ origWrites' = origWrites + 1
            /\ pc' = "atexit"
            /\ UNCHANGED <<dieMsg, enableFailed>>
       ELSE /\ pc' = "die"
            /\ dieMsg' = "tcgetattr"
            /\ enableFailed' = "tcgetattr"
            /\ UNCHANGED <<orig_termios, captured, origWrites>>
  /\ UNCHANGED <<term, raw, handlers, inExit, exitCode, stderr, stdout, c,
                 nread, reads, term0, rawApplied, setattrCalls, restoreCalls,
                 restoreOk, quitRead>>

\* AtExit with the registration left out.
AtExit_NoRegister ==
  /\ pc = "atexit"
  /\ pc' = "copy"
  /\ UNCHANGED <<term, orig_termios, raw, handlers, inExit, exitCode, dieMsg,
                 stderr, stdout, c, nread, reads>>
  /\ UNCHANGED hist

\* AtExit with disableRawMode registered twice.
AtExit_Twice ==
  /\ pc = "atexit"
  /\ handlers' = handlers \o <<"disableRawMode", "disableRawMode">>
  /\ pc' = "copy"
  /\ UNCHANGED <<term, orig_termios, raw, inExit, exitCode, dieMsg, stderr,
                 stdout, c, nread, reads>>
  /\ UNCHANGED hist

\* line 35: atexit(disableRawMode)
AtExit ==
  /\ pc = "atexit"
  /\ handlers' = Append(handlers, "disableRawMode")
  /\ pc' = "copy"
  /\ UNCHANGED <<term, orig_termios, raw, inExit, exitCode, dieMsg, stderr,
                 stdout, c, nread, reads>>
  /\ UNCHANGED hist

\* line 39: struct termios raw = orig_termios
CopyOrig ==
  /\ pc = "copy"
  /\ raw' = orig_termios
  /\ pc' = "derive"
  /\ UNCHANGED <<term, orig_termios, handlers, inExit, exitCode, dieMsg,
                 stderr, stdout, c, nread, reads>>
  /\ UNCHANGED hist

\* DeriveRaw with line 89 written as raw.c_cflag &= ~(CS8).
DeriveRaw_ClearCs8(t) ==
  [c_iflag |-> BitAndNot(t.c_iflag,
                 BRKINT \cup ICRNL \cup INPCK \cup ISTRIP \cup IXON),
   c_oflag |-> BitAndNot(t.c_oflag, OPOST),
   c_cflag |-> BitAndNot(t.c_cflag, CS8),
   c_lflag |-> BitAndNot(t.c_lflag, ECHO \cup ICANON \cup IEXTEN \cup ISIG),
   c_cc |-> [t.c_cc EXCEPT ![VMIN] = 0, ![VTIME] = 1]]

\* DeriveRaw with line 90 written as raw.c_lflag = 0 and line 91-92 clearing
\* the whole of c_cc.
DeriveRaw_ClearAll(t) ==
  [c_iflag |-> BitAndNot(t.c_iflag,
                 BRKINT \cup ICRNL \cup INPCK \cup ISTRIP \cup IXON),
   c_oflag |-> BitAndNot(t.c_oflag, OPOST),
   c_cflag |-> BitOr(t.c_cflag, CS8),
   c_lflag |-> {},
   c_cc |-> [[i \in CcIndices |-> 0] EXCEPT ![VTIME] = 1]]

\* lines 87-92, as a function of the copy
DeriveRaw(t) ==
  [c_iflag |-> BitAndNot(t.c_iflag,
                 BRKINT \cup ICRNL \cup INPCK \cup ISTRIP \cup IXON),
   c_oflag |-> BitAndNot(t.c_oflag, OPOST),
   c_cflag |-> BitOr(t.c_cflag, CS8),
   c_lflag |-> BitAndNot(t.c_lflag, ECHO \cup ICANON \cup IEXTEN \cup ISIG),
   c_cc |-> [t.c_cc EXCEPT ![VMIN] = 0, ![VTIME] = 1]]

\* DeriveRawStep with raw an alias of orig_termios instead of a copy.
DeriveRawStep_InPlace ==
  /\ pc = "derive"
  /\ raw' = DeriveRaw(raw)
  /\ orig_termios' = raw'
  /\ pc' = "apply"
  /\ UNCHANGED <<term, handlers, inExit, exitCode, dieMsg, stderr, stdout, c,
                 nread, reads>>
  /\ UNCHANGED hist

\* lines 87-92 applied to the local raw
DeriveRawStep ==
  /\ pc = "derive"
  /\ raw' = DeriveRaw(raw)
  /\ pc' = "apply"
  /\ UNCHANGED <<term, orig_termios, handlers, inExit, exitCode, dieMsg,
                 stderr, stdout, c, nread, reads>>
  /\ UNCHANGED hist

\* line 96-98: tcsetattr(STDIN_FILENO, TCSAFLUSH, &raw), die on -1
ApplyRaw ==
  /\ pc = "apply"
  /\ setattrCalls' = setattrCalls + 1
  /\ \E ok \in BOOLEAN :
       IF ok
       THEN /\ term' = raw
            /\ rawApplied' = TRUE
            /\ pc' = "read"
            /\ UNCHANGED <<dieMsg, enableFailed>>
       ELSE /\ pc' = "die"
            /\ dieMsg' = "tcsetattr"
            /\ enableFailed' = "tcsetattr"
            /\ UNCHANGED <<term, rawApplied>>
  /\ UNCHANGED <<orig_termios, raw, handlers, inExit, exitCode, stderr,
                 stdout, c, nread, reads, term0, captured, origWrites,
                 restoreCalls, restoreOk, quitRead>>

\* -------------------------------------------------------------- exit, die
\* exit(code).  The first call starts the termination: the registered
\* handlers run, then the process ends with status code.  A call made while
\* exit is already running its handlers is undefined behaviour: the C
\* library either carries on with the termination (remaining handlers,
\* status of the latest call) or ends the process abnormally.
Exit(code) ==
  IF ~inExit
  THEN /\ inExit' = TRUE
       /\ exitCode' = code
       /\ pc' = "exit_handlers"
  ELSE \/ /\ exitCode' = code
          /\ pc' = "exit_handlers"
          /\ UNCHANGED inExit
       \/ /\ pc' = "crashed"
          /\ UNCHANGED <<inExit, exitCode>>

\* exit's loop over the registered functions, latest first; a function is
\* taken off the list before it is called.  With none left the process ends.
RunExitHandlers ==
  /\ pc = "exit_handlers"
  /\ IF handlers # <<>>
     THEN /\ pc' = handlers[Len(handlers)]
          /\ handlers' = SubSeq(handlers, 1, Len(handlers) - 1)
     ELSE /\ pc' = "exited"
          /\ UNCHANGED handlers
  /\ UNCHANGED <<term, orig_termios, raw, inExit, exitCode, dieMsg, stderr,
                 stdout, c, nread, reads>>
  /\ UNCHANGED hist

\* line 10: perror(s)
DiePerror ==
  /\ pc = "die"
  /\ stderr' = Append(stderr, dieMsg)
  /\ pc' = "die_exit"
  /\ UNCHANGED <<term, orig_termios, raw, handlers, inExit, exitCode, dieMsg,
                 stdout, c, nread, reads>>
  /\ UNCHANGED hist

\* line 11: exit(1)
DieExit ==
  /\ pc = "die_exit"
  /\ Exit(1)
  /\ UNCHANGED <<term, orig_termios, raw, handlers, dieMsg, stderr, stdout,
                 c, nread, reads>>
  /\ UNCHANGED hist

\* --------------------------------------------------------- disableRawMode
\* DisableRawMode retrying the tcsetattr until it succeeds instead of
\* calling die (restoreOk alternates between "failed" and "retry" while the
\* attempts fail).
DisableRawMode_Retry ==
  /\ pc = "disableRawMode"
  /\ \E ok \in BOOLEAN :
       IF ok
       THEN /\ term' = orig_termios
            /\ restoreOk' = "ok"
            /\ restoreCalls' = restoreCalls + 1
            /\ setattrCalls' = setattrCalls + 1
            /\ pc' = "exit_handlers"
       ELSE /\ restoreOk' = IF restoreOk = "failed" THEN "retry" ELSE "failed"
            /\ pc' = "disableRawMode"
            /\ UNCHANGED <<term, restoreCalls, setattrCalls>>
  /\ UNCHANGED <<orig_termios, raw, handlers, inExit, exitCode, dieMsg,
                 stderr, stdout, c, nread, reads, term0, captured,
                 origWrites, rawApplied, enableFailed, quitRead>>

\* DisableRawMode writing a recomputed configuration (the current one with
\* echo and canonical mode switched back on) instead of orig_termios.
DisableRawMode_Recomputed ==
  /\ pc = "disableRawMode"
  /\ restoreCalls' = restoreCalls + 1
  /\ setattrCalls' = setattrCalls + 1
  /\ \E ok \in BOOLEAN :
       IF ok
       THEN /\ term' = [term EXCEPT !.c_lflag = BitOr(@, ECHO \cup ICANON)]
            /\ restoreOk' = "ok"
            /\ pc' = "exit_handlers"
            /\ UNCHANGED dieMsg
       ELSE /\ restoreOk' = "failed"
            /\ pc' = "die"
            /\ dieMsg' = "tcsetattr"
            /\ UNCHANGED term
  /\ UNCHANGED <<orig_termios, raw, handlers, inExit, exitCode, stderr,
                 stdout, c, nread, reads, term0, captured, origWrites,
                 rawApplied, enableFailed, quitRead>>

\* lines 14-18: tcsetattr(STDIN_FILENO, TCSAFLUSH, &orig_termios), die on -1;
\* on success the function returns into exit's loop
DisableRawMode ==
  /\ pc = "disableRawMode"
  /\ restoreCalls' = restoreCalls + 1
  /\ setattrCalls' = setattrCalls + 1
  /\ \E ok \in BOOLEAN :
       IF ok
       THEN /\ term' = orig_termios
            /\ restoreOk' = "ok"
            /\ pc' = "exit_handlers"
            /\ UNCHANGED dieMsg
       ELSE /\ restoreOk' = "failed"
            /\ pc' = "die"
            /\ dieMsg' = "tcsetattr"
            /\ UNCHANGED term
  /\ UNCHANGED <<orig_termios, raw, handlers, inExit, exitCode, stderr,
                 stdout, c, nread, reads, term0, captured, origWrites,
                 rawApplied, enableFailed, quitRead>>

\* ------------------------------------------------------------------- main
\* iscntrl in the C locale
IsCntrl(ch) == ch < 32 \/ ch = 127

\* lines 105-106: char c = '\0'; read(STDIN_FILENO, &c, 1).  read stores a
\* byte and returns 1, or returns 0 (VTIME expired) or -1 and leaves c alone.
ReadByte ==
  /\ pc = "read"
  /\ reads < MaxReads
  /\ reads' = reads + 1
  /\ \/ \E b \in Bytes : c' = b /\ nread' = 1
     \/ c' = 0 /\ nread' = 0
     \/ c' = 0 /\ nread' = -1
  /\ pc' = "print"
  /\ UNCHANGED <<term, orig_termios, raw, handlers, inExit, exitCode, dieMsg,
                 stderr, stdout>>
  /\ UNCHANGED hist

\* lines 108-112: the line printed for the value ch of c, as the values that
\* fill the conversions of the format
LineOf(ch) == IF IsCntrl(ch) THEN <<ch>> ELSE <<ch, ch>>

\* lines 108-112: "%d\r\n" for a control character, "%d ('%c')\r\n" otherwise
PrintByte ==
  /\ pc = "print"
  /\ stdout' = Append(stdout, LineOf(c))
  /\ pc' = "check"
  /\ UNCHANGED <<term, orig_termios, raw, handlers, inExit, exitCode, dieMsg,
                 stderr, c, nread, reads>>
  /\ UNCHANGED hist

\* CheckQuit with the test written against ctrl-Q (c == ('q' & 0x1f)).
CheckQuit_CtrlQ ==
  /\ pc = "check"
  /\ IF c = 17
     THEN pc' = "return" /\ quitRead' = TRUE
     ELSE pc' = "read" /\ UNCHANGED quitRead
  /\ UNCHANGED <<term, orig_termios, raw, handlers, inExit, exitCode, dieMsg,
                 stderr, stdout, c, nread, reads, term0, captured,
                 origWrites, rawApplied, setattrCalls, restoreCalls,
                 restoreOk, enableFailed>>

\* lines 114-116: if (c == 'q') break
CheckQuit ==
  /\ pc = "check"
  /\ IF c = QuitKey
     THEN pc' = "return" /\ quitRead' = TRUE
     ELSE pc' = "read" /\ UNCHANGED quitRead
  /\ UNCHANGED <<term, orig_termios, raw, handlers, inExit, exitCode, dieMsg,
                 stderr, stdout, c, nread, reads, term0, captured,
                 origWrites, rawApplied, setattrCalls, restoreCalls,
                 restoreOk, enableFailed>>

\* ReturnMain with return 1.
ReturnMain_NonZero ==
  /\ pc = "return"
  /\ Exit(1)
  /\ UNCHANGED <<term, orig_termios, raw, handlers, dieMsg, stderr, stdout,
                 c, nread, reads>>
  /\ UNCHANGED hist

\* line 119: return 0 from main, which is exit(0)
ReturnMain ==
  /\ pc = "return"
  /\ Exit(0)
  /\ UNCHANGED <<term, orig_termios, raw, handlers, dieMsg, stderr, stdout,
                 c, nread, reads>>
  /\ UNCHANGED hist

\* ------------------------------------------------------------ environment
\* A termination signal is delivered.  No handler is installed anywhere in
\* the program, so the process ends at once and exit's handlers do not run.
Signal ==
  /\ pc \notin Ended
  /\ pc' = "killed"
  /\ UNCHANGED <<term, orig_termios, raw, handlers, inExit, exitCode, dieMsg,
                 stderr, stdout, c, nread, reads>>
  /\ UNCHANGED hist

Next ==
  \/ Tcgetattr
  \/ AtExit
  \/ CopyOrig
  \/ DeriveRawStep
  \/ ApplyRaw
  \/ ReadByte
  \/ PrintByte
  \/ CheckQuit
  \/ ReturnMain
  \/ DiePerror
  \/ DieExit
  \/ RunExitHandlers
  \/ DisableRawMode
  \/ Signal

Spec == Init /\ [][Next]_vars

\* The steps of the process itself.  The process is scheduled as long as
\* it exists, so a step of it that stays possible is eventually taken; the
\* delivery of a signal is up to the environment.
ProgramStep ==
  \/ Tcgetattr
  \/ AtExit
  \/ CopyOrig
  \/ DeriveRawStep
  \/ ApplyRaw
  \/ ReadByte
  \/ PrintByte
  \/ CheckQuit
  \/ ReturnMain
  \/ DiePerror
  \/ DieExit
  \/ RunExitHandlers
  \/ DisableRawMode

SpecFair == Spec /\ WF_vars(ProgramStep)

TypeOK ==
  /\ pc \in {"tcgetattr", "atexit", "copy", "derive", "apply", "read",
             "print", "check", "return", "die", "die_exit", "exit_handlers",
             "disableRawMode"} \cup Ended
  /\ exitCode \in {NoExitCode, 0, 1}
  /\ reads \in 0..MaxReads
  /\ Len(handlers) <= 1
  /\ Len(stderr) <= 2

\* ------------------------------------------- disableRawMode called again
\* Number of calls of disableRawMode that the repeated-call specification
\* follows.
MaxCalls == 2

\* The states in which exit calls disableRawMode: after the raw
\* configuration was applied and main returned on 'q', or after the apply
\* of line 96 failed and die called exit(1).
InitIdem ==
  \E o \in InitTermios, wasRaw \in BOOLEAN :
    /\ term0 = o
    /\ orig_termios = o
    /\ raw = DeriveRaw(o)
    /\ term = IF wasRaw THEN DeriveRaw(o) ELSE o
    /\ pc = "disableRawMode"
    /\ handlers = <<>>
    /\ inExit = TRUE
    /\ exitCode = IF wasRaw THEN 0 ELSE 1
    /\ dieMsg = IF wasRaw THEN "" ELSE "tcsetattr"
    /\ stderr = IF wasRaw THEN <<>> ELSE <<"tcsetattr">>
    /\ stdout = IF wasRaw THEN << <<QuitKey, QuitKey>> >> ELSE <<>>
    /\ c = IF wasRaw THEN QuitKey ELSE 0
    /\ nread = IF wasRaw THEN 1 ELSE 0
    /\ reads = IF wasRaw THEN 1 ELSE 0
    /\ captured = TRUE
    /\ origWrites = 1
    /\ rawApplied = wasRaw
    /\ setattrCalls = 1
    /\ restoreCalls = 0
    /\ restoreOk = "none"
    /\ enableFailed = IF wasRaw THEN "none" ELSE "tcsetattr"
    /\ quitRead = wasRaw

\* disableRawMode has returned and is called once more, as the restore
\* operation of the specification may be (the program itself calls it once).
CallAgain ==
  /\ pc = "exit_handlers"
  /\ restoreCalls < MaxCalls
  /\ pc' = "disableRawMode"
  /\ UNCHANGED <<term, orig_termios, raw, handlers, inExit, exitCode, dieMsg,
                 stderr, stdout, c, nread, reads>>
  /\ UNCHANGED hist

NextIdem ==
  \/ DisableRawMode
  \/ CallAgain

SpecIdem == InitIdem /\ [][NextIdem]_vars

\* ================================================================ claims
\* The process has ended by an action of its own (exit, or the abnormal
\* end of a second exit), as opposed to a signal from outside.
EndedByProgram == pc \in {"exited", "crashed"}

\* C1: whenever the raw configuration was applied and the process has ended
\* on an exit path of its own (return from main or die/exit), disableRawMode
\* has run before the end.
C1_GuardRuns == (EndedByProgram /\ rawApplied) => restoreCalls >= 1

C1_Witness == pc = "exited" /\ rawApplied /\ quitRead /\ restoreCalls = 1

\* C2 (as stated): on every termination, a termination signal included,
\* disableRawMode has run and the terminal is not left in the raw
\* configuration.
C2_RestoreOnEveryTermination ==
  (pc \in Ended /\ rawApplied) => (restoreCalls >= 1 /\ term = orig_termios)

\* C3: when the raw configuration was applied and disableRawMode's tcsetattr
\* then succeeded, the terminal holds the configuration it had at the
\* capture, which is the stored orig_termios.
C3_RoundTrip ==
  (rawApplied /\ restoreOk = "ok") => (term = term0 /\ term = orig_termios)

C3_Witness ==
  /\ rawApplied /\ restoreOk = "ok" /\ pc = "exited"
  /\ raw # term0 /\ term = term0

\* The properties C4 lists of a raw configuration.
IsRaw(t) ==
  /\ t.c_lflag \cap (ECHO \cup ICANON \cup ISIG \cup IEXTEN) = {}
  /\ t.c_iflag \cap (IXON \cup ICRNL \cup INPCK \cup ISTRIP) = {}
  /\ t.c_oflag \cap OPOST = {}
  /\ t.c_cflag \cap CS8 = CS8
  /\ t.c_cc[VMIN] = 0
  /\ t.c_cc[VTIME] = 1

\* C4: the configuration handed to the tcsetattr of line 96, and the one the
\* terminal holds once that call succeeded and until the restore, has ECHO,
\* ICANON, ISIG, IXON, IEXTEN, ICRNL, OPOST, INPCK and ISTRIP clear,
\* character size CS8, VMIN = 0 and VTIME = 1, whatever was captured.
C4_RawFlags ==
  /\ pc = "apply" => IsRaw(raw)
  /\ (rawApplied /\ restoreOk # "ok") => (term = raw /\ IsRaw(term))

C4_Witness ==
  /\ rawApplied /\ pc = "read"
  /\ ECHO \subseteq term0.c_lflag /\ ISTRIP \subseteq term0.c_iflag
  /\ term0.c_cflag \cap CS8 # CS8 /\ term0.c_cc[VMIN] = 1

\* The two configurations agree outside the bits and control characters
\* named by the masks.
SameOutside(a, b, imask, omask, cmask, lmask, ccs) ==
  /\ a.c_iflag \ imask = b.c_iflag \ imask
  /\ a.c_oflag \ omask = b.c_oflag \ omask
  /\ a.c_cflag \ cmask = b.c_cflag \ cmask
  /\ a.c_lflag \ lmask = b.c_lflag \ lmask
  /\ \A i \in CcIndices \ ccs : a.c_cc[i] = b.c_cc[i]

\* The derivation is over: raw is the configuration that the tcsetattr of
\* line 96 is about to be, or has been, called with.
Derived == pc = "apply" \/ setattrCalls >= 1

\* C5 (as stated): the configuration applied differs from the captured one
\* in no bit other than ECHO, ICANON, ISIG, IXON, IEXTEN, ICRNL, OPOST,
\* INPCK, ISTRIP, the character size, and in no control character other
\* than VMIN and VTIME; BRKINT in particular is carried over.
C5_FrameAsStated ==
  Derived =>
    SameOutside(raw, orig_termios,
                IXON \cup ICRNL \cup INPCK \cup ISTRIP, OPOST, CS8,
                ECHO \cup ICANON \cup ISIG \cup IEXTEN, {VMIN, VTIME})

\* C5 (amended): as C5_FrameAsStated, with BRKINT among the bits that may
\* differ.
C5_Frame ==
  Derived =>
    SameOutside(raw, orig_termios,
                BRKINT \cup IXON \cup ICRNL \cup INPCK \cup ISTRIP, OPOST,
                CS8, ECHO \cup ICANON \cup ISIG \cup IEXTEN, {VMIN, VTIME})

C5_Witness ==
  /\ pc = "apply" /\ raw # orig_termios
  /\ 0 \in orig_termios.c_iflag /\ 4 \in orig_termios.c_lflag
  /\ orig_termios.c_cc[0] = 28

\* C6: orig_termios is written by the capture only, at most once, and holds
\* the captured configuration from then on (zero before): neither the
\* derivation nor any later step changes it.
C6_OrigWrittenOnce ==
  /\ origWrites <= 1
  /\ captured <=> (origWrites = 1)
  /\ orig_termios = IF captured THEN term0 ELSE ZeroTermios

C6_Witness ==
  /\ pc = "exited" /\ rawApplied /\ restoreCalls = 1
  /\ raw # orig_termios /\ origWrites = 1

C8_EnableFailure ==
  (enableFailed # "none" /\ EndedByProgram)
    => /\ pc = "exited" /\ exitCode = 1
       /\ Len(stderr) >= 1 /\ stderr[1] = enableFailed
       /\ reads = 0 /\ stdout = <<>>

\* C9 (as stated): when enableRawMode failed, the terminal holds its prior
\* configuration and disableRawMode is never invoked.
C9_NoRestoreAsStated ==
  enableFailed # "none" => (term = term0 /\ restoreCalls = 0)

\* C9 (amended): when enableRawMode failed, the terminal never leaves its
\* prior configuration; after a failed capture there is no tcsetattr call
\* and no invocation of disableRawMode; after a failed apply the handler is
\* registered already and disableRawMode runs once at exit, with the
\* captured configuration (equal to the terminal's) in orig_termios.
C9_FailureKeepsTerminal ==
  enableFailed # "none" =>
    /\ term = term0 /\ ~rawApplied
    /\ enableFailed = "tcgetattr" => (setattrCalls = 0 /\ restoreCalls = 0)
    /\ enableFailed = "tcsetattr" =>
         /\ orig_termios = term0
         /\ restoreCalls <= 1
         /\ EndedByProgram => restoreCalls = 1

C9_Witness ==
  /\ enableFailed = "tcsetattr" /\ pc = "exited" /\ restoreOk = "ok"
  /\ restoreCalls = 1 /\ setattrCalls = 2 /\ term = term0

\* C10 (as stated): orig_termios holds a captured configuration exactly when
\* the raw configuration has been applied.
C10_PopulatedIffRaw == captured <=> rawApplied

\* C10 (amended): whenever the raw configuration has been applied,
\* orig_termios holds the captured configuration (the converse fails between
\* the capture and the apply, and for good when the apply fails).
C10_RawImpliesPopulated ==
  rawApplied => (captured /\ orig_termios = term0)

C10_Witness == rawApplied /\ captured /\ pc = "read" /\ reads = 0

\* C11: disableRawMode runs at most once in a process, and exactly once in
\* a process that applied the raw configuration and ended on an exit path of
\* its own, the path on which disableRawMode fails and die calls exit again
\* included.
C11_RestoreOnce ==
  /\ restoreCalls <= 1
  /\ (EndedByProgram /\ rawApplied) => restoreCalls = 1
  /\ (EndedByProgram /\ restoreOk = "failed") => restoreCalls = 1

C11_Witness ==
  /\ pc = "exited" /\ rawApplied /\ restoreOk = "failed"
  /\ restoreCalls = 1 /\ Len(stderr) = 1

\* C12: once the tcsetattr of disableRawMode has failed, the process
\* eventually ends (it does not loop or hang in the exit path), and when it
\* ends by itself the failure is on standard error as the last diagnostic.
C12_FailedRestoreTerminates ==
  /\ (restoreOk = "failed") ~> (pc \in Ended)
  /\ []((restoreOk = "failed" /\ EndedByProgram)
          => (stderr # <<>> /\ stderr[Len(stderr)] = "tcsetattr"))

C12_Witness ==
  /\ restoreOk = "failed" /\ pc = "exited" /\ exitCode = 1
  /\ stderr = <<"tcsetattr">>

\* C13: a run of disableRawMode that follows a successful run of it, or
\* that finds the terminal in the stored original configuration, changes
\* neither the terminal configuration nor orig_termios; after one, two or
\* more successful runs the terminal holds the stored original.
C13_Idempotent ==
  /\ [][(pc = "disableRawMode"
          /\ ((restoreCalls >= 1 /\ restoreOk = "ok") \/ term = orig_termios))
        => (term' = term /\ orig_termios' = orig_termios)]_vars
  /\ []((restoreCalls >= 1 /\ restoreOk = "ok")
          => (term = orig_termios /\ orig_termios = term0))

C13_Witness ==
  /\ restoreCalls = 2 /\ restoreOk = "ok" /\ pc = "exit_handlers"
  /\ rawApplied /\ raw # term0 /\ term = term0

\* C14 (as stated): after a read that returned -1 the program neither
\* prints the iteration's c as if a byte had been read nor goes on to the
\* quit test and the next read.
C14_ReadErrorReported == nread = -1 => pc \notin {"check", "read"}

\* C15 (as stated): the line printed by an iteration whose read timed out
\* differs from the line printed for every byte value, 0x00 included.
C15_TimeoutDistinct ==
  (pc = "check" /\ nread = 0)
    => \A b \in Bytes : stdout[Len(stdout)] # LineOf(b)

\* C16: the main loop is left in the first iteration that read the byte
\* 'q', after the line for that byte was printed, and in no other way: no
\* earlier iteration printed a 'q', an iteration goes on to the next read
\* only when its byte is not 'q', and a process that entered the loop calls
\* exit or ends by itself only after the loop read 'q'.
C16_LoopLeavesOnQuitOnly ==
  /\ quitRead =>
       /\ c = QuitKey /\ nread = 1
       /\ Len(stdout) = reads /\ reads >= 1
       /\ stdout[Len(stdout)] = <<QuitKey, QuitKey>>
       /\ \A i \in 1..(Len(stdout) - 1) : stdout[i][1] # QuitKey
  /\ (pc = "read" /\ ~quitRead) =>
       \A i \in 1..Len(stdout) : stdout[i][1] # QuitKey
  /\ pc = "return" => quitRead
  /\ (rawApplied /\ (inExit \/ EndedByProgram)) => quitRead

C16_Witness ==
  /\ pc = "exited" /\ quitRead /\ reads = 2
  /\ stdout = << <<0>>, <<QuitKey, QuitKey>> >>

\* disableRawMode is on exit's list of registered functions.
Registered ==
  \E i \in 1..Len(handlers) : handlers[i] = "disableRawMode"

\* C17: disableRawMode is registered when the tcsetattr of line 96 is
\* called, only after a successful capture, and stays registered until exit
\* is called: a live process whose terminal was put in the raw configuration
\* and not yet restored has disableRawMode registered or running.
C17_RawIsGuarded ==
  /\ pc = "apply" => Registered
  /\ Registered => captured
  /\ (rawApplied /\ ~inExit) => Registered
  /\ (rawApplied /\ restoreCalls = 0 /\ pc \notin Ended)
       => (Registered \/ pc = "disableRawMode")

C17_Witness ==
  /\ rawApplied /\ pc = "read" /\ Registered
  /\ term = raw /\ term # term0

\* C18: whenever disableRawMode runs or has run, the capture has succeeded
\* and orig_termios holds the captured configuration; when the capture has
\* failed, disableRawMode is not registered and never runs, no tcsetattr
\* call is made, and the process, ending by itself, exits with code 1.
C18_NoUncapturedRestore ==
  /\ (pc = "disableRawMode" \/ restoreCalls >= 1)
       => (captured /\ orig_termios = term0)
  /\ enableFailed = "tcgetattr" =>
       /\ ~Registered /\ restoreCalls = 0 /\ setattrCalls = 0
       /\ term = term0
       /\ EndedByProgram => (pc = "exited" /\ exitCode = 1)

C18_Witness ==
  /\ pc = "disableRawMode" /\ captured /\ rawApplied
  /\ orig_termios = term0 /\ term # orig_termios

====
